---- MODULE Spec2Model ----
(***************************************************************************)
(* A model of the cita-trie Merkle Patricia trie (src/src/trie.rs) with    *)
(* its RLP node codec (src/src/codec.rs).                                  *)
(*                                                                         *)
(* A byte string is a sequence of atoms.  A plain byte b is the atom       *)
(* <<0, b>>.  A SHA3-256 digest is 32 atoms: the first one, <<1, data>>,   *)
(* carries the preimage (the hash is collision free by construction) and  *)
(* the other 31 are fillers <<2, i>>, so that a digest has the length the  *)
(* code tests against HASH_LENGTH.                                         *)
(***************************************************************************)
EXTENDS Integers, Sequences, FiniteSets, TLC

HASH_LENGTH == 32

\* ------------------------------------------------------------------ bytes
B(b) == <<0, b>>

Bytes(s) == [i \in 1..Len(s) |-> B(s[i])]

Val(a) == a[2]

IsPlain(a) == a[1] = 0

RECURSIVE Concat(_)
Concat(ss) == IF ss = <<>> THEN <<>> ELSE Head(ss) \o Concat(Tail(ss))

\* Big-endian bytes of a length, as the rlp crate writes a long header.
BE(n) == IF n < 256 THEN <<n>> ELSE <<n \div 256, n % 256>>

FromBE(s) == IF Len(s) = 1 THEN Val(s[1]) ELSE Val(s[1]) * 256 + Val(s[2])

\* ------------------------------------------------------------ RLPNodeCodec
Sha3(data) == <<<<1, data>>>> \o [i \in 1..(HASH_LENGTH - 1) |-> <<2, i>>]

decode_hash(data, is_hash) == IF is_hash THEN data ELSE Sha3(data)

encode_empty == <<B(128)>>

encode_raw(raw) ==
    IF Len(raw) = 1 /\ IsPlain(raw[1]) /\ Val(raw[1]) < 128 THEN raw
    ELSE IF Len(raw) < 56 THEN <<B(128 + Len(raw))>> \o raw
    ELSE <<B(183 + Len(BE(Len(raw))))>> \o Bytes(BE(Len(raw))) \o raw

ListHeader(n) ==
    IF n < 56 THEN <<B(192 + n)>>
    ELSE <<B(247 + Len(BE(n)))>> \o Bytes(BE(n))

encode_pair(key, value) == ListHeader(Len(key) + Len(value)) \o key \o value

encode_values(values) ==
    LET payload == Concat(values) IN ListHeader(Len(payload)) \o payload

\* The header of the RLP item that starts a byte string: the length of the
\* header, the length of the payload, and whether the item is a list.
\* ok is FALSE when the string is empty or shorter than the header says.
PayloadInfo(data) ==
    IF data = <<>> \/ ~IsPlain(data[1]) THEN [ok |-> FALSE, hdr |-> 0, len |-> 0, list |-> FALSE]
    ELSE LET b == Val(data[1])
             short(h, l, isl) == [ok |-> Len(data) >= h + l, hdr |-> h, len |-> l, list |-> isl]
             long(ll, isl) ==
                 IF Len(data) < 1 + ll \/ \E i \in 2..(1 + ll) : ~IsPlain(data[i])
                 THEN [ok |-> FALSE, hdr |-> 0, len |-> 0, list |-> isl]
                 ELSE short(1 + ll, FromBE(SubSeq(data, 2, 1 + ll)), isl)
         IN  IF b < 128 THEN short(0, 1, FALSE)
             ELSE IF b < 184 THEN short(1, b - 128, FALSE)
             ELSE IF b < 192 THEN long(b - 183, FALSE)
             ELSE IF b < 248 THEN short(1, b - 192, TRUE)
             ELSE long(b - 247, TRUE)

ItemLen(data) == LET pi == PayloadInfo(data) IN pi.hdr + pi.len

Payload(item) == LET pi == PayloadInfo(item) IN SubSeq(item, pi.hdr + 1, pi.hdr + pi.len)

\* Whether a list payload splits into whole items.
RECURSIVE ItemsOk(_)
ItemsOk(payload) ==
    \/ payload = <<>>
    \/ LET pi == PayloadInfo(payload)
       IN  pi.ok /\ ItemsOk(SubSeq(payload, pi.hdr + pi.len + 1, Len(payload)))

\* The raw items of a list payload, in order.
RECURSIVE Items(_)
Items(payload) ==
    IF payload = <<>> THEN <<>>
    ELSE LET n == ItemLen(payload)
         IN  <<SubSeq(payload, 1, n)>> \o Items(SubSeq(payload, n + 1, Len(payload)))

\* Rlp::is_empty: the item is the empty string 0x80 or the empty list 0xc0.
RlpIsEmpty(item) == IsPlain(item[1]) /\ Val(item[1]) \in {128, 192}

\* RLPNodeCodec::decode, as the DataType it hands to its callback.
\* "Error" is an Err(RLPCodecError), "Panic" the panic!("invalid data").
decode(data) ==
    LET list(items) ==
            IF Len(items) = 2
            THEN IF PayloadInfo(items[1]).list THEN [t |-> "Error"]
                 ELSE [t |-> "Pair",
                       key |-> Payload(items[1]),
                       value |-> IF ~PayloadInfo(items[2]).list
                                 THEN Payload(items[2]) ELSE items[2]]
            ELSE IF Len(items) = 17
            THEN IF ~RlpIsEmpty(items[17]) /\ PayloadInfo(items[17]).list
                 THEN [t |-> "Error"]
                 ELSE [t |-> "Values",
                       values |-> [i \in 1..17 |->
                           IF i < 17 THEN items[i]
                           ELSE IF RlpIsEmpty(items[17]) THEN encode_empty
                           ELSE Payload(items[17])]]
            ELSE [t |-> "Panic"]
        prototype(pi, payload) ==
            IF ~pi.ok THEN [t |-> "Error"]
            ELSE IF ~pi.list
            THEN IF pi.len = 0 THEN [t |-> "Empty"]
                 ELSE IF pi.len = HASH_LENGTH THEN [t |-> "Hash", hash |-> payload]
                 ELSE [t |-> "Panic"]
            ELSE IF ~ItemsOk(payload) THEN [t |-> "Error"]
            ELSE list(Items(payload))
    IN  prototype(PayloadInfo(data), Payload(data))

\* ----------------------------------------------------------------- Nibbles
\* A nibble path is a sequence over 0..16, where 16 is the terminator.
from_raw(raw, is_leaf) ==
    [i \in 1..(2 * Len(raw)) |->
        IF i % 2 = 1 THEN Val(raw[(i + 1) \div 2]) \div 16
        ELSE Val(raw[i \div 2]) % 16]
    \o (IF is_leaf THEN <<16>> ELSE <<>>)

at(n, i) == n[i + 1]

slice(n, start, end) == SubSeq(n, start + 1, end)

Min(a, b) == IF a < b THEN a ELSE b

common_prefix(a, b) ==
    CHOOSE i \in 0..Min(Len(a), Len(b)) :
        /\ \A j \in 1..i : a[j] = b[j]
        /\ i = Min(Len(a), Len(b)) \/ a[i + 1] # b[i + 1]

join(a, b) == a \o b

is_leaf(n) == n[Len(n)] = 16

encode_compact(n) ==
    LET leaf == is_leaf(n)
        hex0 == IF leaf THEN SubSeq(n, 1, Len(n) - 1) ELSE n
        odd == Len(hex0) % 2 = 1
        hex == IF odd THEN Tail(hex0) ELSE hex0
        flag == (IF odd THEN 16 + hex0[1] ELSE 0) + (IF leaf THEN 32 ELSE 0)
    IN  <<B(flag)>> \o [i \in 1..(Len(hex) \div 2) |-> B(hex[2 * i - 1] * 16 + hex[2 * i])]

from_compact(compact) ==
    LET flag == Val(compact[1])
        leaf == flag \div 16 \in {2, 3}
        first == IF flag \div 16 \in {1, 3} THEN <<flag % 16>> ELSE <<>>
    IN  first \o from_raw(Tail(compact), leaf)

\* ------------------------------------------------------------------- nodes
None == [some |-> FALSE]

Some(v) == [some |-> TRUE, v |-> v]

Empty == [type |-> "Empty"]

LeafNode(key, value) == [type |-> "Leaf", key |-> key, value |-> value]

ExtensionNode(prefix, node) == [type |-> "Extension", prefix |-> prefix, node |-> node]

HashNode(hash) == [type |-> "Hash", hash |-> hash]

\* BranchNode::new: sixteen empty children and no value.
BranchNew == [type |-> "Branch", children |-> [i \in 1..16 |-> Empty], value |-> None]

\* BranchNode::insert(i, n): slot 16 takes the value of a leaf.
BranchInsert(branch, i, n) ==
    IF i = 16 THEN [branch EXCEPT !.value = Some(n.value)]
    ELSE [branch EXCEPT !.children[i + 1] = n]

at_children(branch, i) == branch.children[i + 1]

\* A node the codec refused: Err(RLPCodecError) or the codec's panic.
Invalid(kind) == [type |-> kind]

IsInvalid(n) == n.type \in {"Error", "Panic"}

\* ------------------------------------------------------------ decode_node
RECURSIVE decode_node(_)
try_decode_hash_node(data) ==
    IF Len(data) = HASH_LENGTH THEN HashNode(data) ELSE decode_node(data)

decode_node(data) ==
    LET f(dp) ==
          CASE dp.t = "Empty" -> Empty
            [] dp.t = "Pair" ->
                  IF dp.key = <<>> \/ ~IsPlain(dp.key[1]) \/ Val(dp.key[1]) \div 16 > 3
                  THEN Invalid("Panic")
                  ELSE LET nibble == from_compact(dp.key)
                       IN  IF nibble = <<>> THEN Invalid("Panic")
                           ELSE IF is_leaf(nibble) THEN LeafNode(nibble, dp.value)
                           ELSE LET n == try_decode_hash_node(dp.value)
                                IN  IF IsInvalid(n) THEN n ELSE ExtensionNode(nibble, n)
            [] dp.t = "Values" ->
                  LET ns == [i \in 1..16 |-> try_decode_hash_node(dp.values[i])]
                  IN  IF \E i \in 1..16 : IsInvalid(ns[i])
                      THEN ns[CHOOSE i \in 1..16 : IsInvalid(ns[i]) /\ \A j \in 1..(i - 1) : ~IsInvalid(ns[j])]
                      ELSE [type |-> "Branch", children |-> ns,
                            value |-> IF encode_empty = dp.values[17] THEN None
                                      ELSE Some(dp.values[17])]
            [] dp.t = "Hash" -> try_decode_hash_node(dp.hash)
            [] OTHER -> Invalid(dp.t)
    IN  f(decode(data))

\* ------------------------------------------------------------ encode_node
\* encode_node and encode_node_raw yield the bytes (data) together with the
\* (hash, bytes) pairs they put in the cache (gen); the hashes of those
\* pairs are what they add to gen_keys.
RECURSIVE encode_node_raw(_)
encode_node(n) ==
    IF n.type = "Hash" THEN [data |-> n.hash, gen |-> {}]
    ELSE LET hashed(r) ==
                 IF Len(r.data) < HASH_LENGTH THEN r
                 ELSE [data |-> decode_hash(r.data, FALSE),
                       gen |-> r.gen \cup {<<decode_hash(r.data, FALSE), r.data>>}]
         IN  hashed(encode_node_raw(n))

WrapHash(data) == IF Len(data) = HASH_LENGTH THEN encode_raw(data) ELSE data

encode_node_raw(n) ==
    CASE n.type = "Empty" -> [data |-> encode_empty, gen |-> {}]
      [] n.type = "Leaf" ->
            [data |-> encode_pair(encode_raw(encode_compact(n.key)), encode_raw(n.value)),
             gen |-> {}]
      [] n.type = "Branch" ->
            LET cs == [i \in 1..16 |-> encode_node(n.children[i])]
                v == IF n.value.some THEN encode_raw(n.value.v) ELSE encode_empty
            IN  [data |-> encode_values([i \in 1..17 |->
                              IF i < 17 THEN WrapHash(cs[i].data) ELSE v]),
                 gen |-> UNION {cs[i].gen : i \in 1..16}]
      [] n.type = "Extension" ->
            LET c == encode_node(n.node)
            IN  [data |-> encode_pair(encode_raw(encode_compact(n.prefix)), WrapHash(c.data)),
                 gen |-> c.gen]

\* ---------------------------------------------------------------- database
\* The database is the set of its (key, value) pairs, at most one per key.
DbGet(db, key) ==
    IF \E p \in db : p[1] = key THEN Some((CHOOSE p \in db : p[1] = key)[2]) ELSE None

\* DB::insert_batch of a set of (key, value) pairs.
DbInsertBatch(db, pairs) == {p \in db : \A q \in pairs : q[1] # p[1]} \cup pairs

\* DB::remove_batch (MemoryDB::new(true) removes the keys it is given).
DbRemoveBatch(db, keys) == {p \in db : p[1] \notin keys}

\* ------------------------------------------------------------ PatriciaTrie
get_node_from_hash(db, hash) ==
    LET data == DbGet(db, hash) IN IF data.some THEN decode_node(data.v) ELSE Empty

\* Results of the fallible reads: Ok(option) or Err(kind).
Ok(v) == [ok |-> TRUE, val |-> v]

Err(kind) == [ok |-> FALSE, err |-> kind]

RECURSIVE get_at(_, _, _)
get_at(db, n, partial) ==
    CASE n.type = "Empty" -> Ok(None)
      [] n.type = "Leaf" -> IF partial = n.key THEN Ok(Some(n.value)) ELSE Ok(None)
      [] n.type = "Branch" ->
            IF partial = <<>> \/ at(partial, 0) = 16 THEN Ok(n.value)
            ELSE get_at(db, at_children(n, at(partial, 0)), slice(partial, 1, Len(partial)))
      [] n.type = "Extension" ->
            LET match_len == common_prefix(partial, n.prefix)
            IN  IF match_len = Len(n.prefix)
                THEN get_at(db, n.node, slice(partial, match_len, Len(partial)))
                ELSE Ok(None)
      [] n.type = "Hash" -> get_at(db, get_node_from_hash(db, n.hash), partial)
      [] OTHER -> Err(n.type)

\* The nodes resolved from the database along the key, deepest first.
RECURSIVE get_path_at(_, _, _)
get_path_at(db, n, partial) ==
    CASE n.type \in {"Empty", "Leaf"} -> <<>>
      [] n.type = "Branch" ->
            IF partial = <<>> \/ at(partial, 0) = 16 THEN <<>>
            ELSE get_path_at(db, at_children(n, at(partial, 0)), slice(partial, 1, Len(partial)))
      [] n.type = "Extension" ->
            LET match_len == common_prefix(partial, n.prefix)
            IN  IF match_len = Len(n.prefix)
                THEN get_path_at(db, n.node, slice(partial, match_len, Len(partial)))
                ELSE <<>>
      [] n.type = "Hash" ->
            LET rest(r) == Append(get_path_at(db, r, partial), r)
            IN  rest(get_node_from_hash(db, n.hash))

\* degenerate yields the node and the hashes it adds to passing_keys.
RECURSIVE degenerate(_, _)
degenerate(db, n) ==
    CASE n.type = "Branch" ->
            LET used_indexs == {i \in 0..15 : at_children(n, i).type # "Empty"}
            IN  IF used_indexs = {} /\ n.value.some
                THEN [node |-> LeafNode(from_raw(<<>>, TRUE), n.value.v), passing |-> {}]
                ELSE IF Cardinality(used_indexs) = 1 /\ ~n.value.some
                THEN LET used_index == CHOOSE i \in used_indexs : TRUE
                     IN  degenerate(db, ExtensionNode(<<used_index>>, at_children(n, used_index)))
                ELSE [node |-> n, passing |-> {}]
      [] n.type = "Extension" ->
            CASE n.node.type = "Extension" ->
                    degenerate(db, ExtensionNode(join(n.prefix, n.node.prefix), n.node.node))
              [] n.node.type = "Leaf" ->
                    [node |-> LeafNode(join(n.prefix, n.node.key), n.node.value), passing |-> {}]
              [] n.node.type = "Hash" ->
                    LET passed(r) ==
                            [node |-> r.node,
                             passing |-> r.passing \cup {decode_hash(n.node.hash, TRUE)}]
                    IN  passed(degenerate(db,
                            ExtensionNode(n.prefix, get_node_from_hash(db, n.node.hash))))
              [] OTHER -> [node |-> n, passing |-> {}]
      [] OTHER -> [node |-> n, passing |-> {}]

\* delete_at yields the node, whether it deleted, and the hashes it adds to
\* passing_keys.
RECURSIVE delete_at(_, _, _)
delete_at(db, n, partial) ==
    LET result(r, d) ==
            [node |-> d.node, deleted |-> r.deleted, passing |-> r.passing \cup d.passing]
        degenerated(r) == result(r, degenerate(db, r.node))
    IN  degenerated(
          CASE n.type = "Empty" -> [node |-> Empty, deleted |-> FALSE, passing |-> {}]
            [] n.type = "Leaf" ->
                  IF n.key = partial THEN [node |-> Empty, deleted |-> TRUE, passing |-> {}]
                  ELSE [node |-> n, deleted |-> FALSE, passing |-> {}]
            [] n.type = "Branch" ->
                  IF at(partial, 0) = 16
                  THEN [node |-> [n EXCEPT !.value = None], deleted |-> TRUE, passing |-> {}]
                  ELSE LET index == at(partial, 0)
                           c == delete_at(db, at_children(n, index), slice(partial, 1, Len(partial)))
                       IN  [node |-> IF c.deleted THEN BranchInsert(n, index, c.node) ELSE n,
                            deleted |-> c.deleted, passing |-> c.passing]
            [] n.type = "Extension" ->
                  LET match_len == common_prefix(partial, n.prefix)
                  IN  IF match_len = Len(n.prefix)
                      THEN LET c == delete_at(db, n.node, slice(partial, match_len, Len(partial)))
                           IN  [node |-> IF c.deleted THEN [n EXCEPT !.node = c.node] ELSE n,
                                deleted |-> c.deleted, passing |-> c.passing]
                      ELSE [node |-> n, deleted |-> FALSE, passing |-> {}]
            [] n.type = "Hash" ->
                  [delete_at(db, get_node_from_hash(db, n.hash), partial)
                      EXCEPT !.passing = @ \cup {decode_hash(n.hash, TRUE)}])

\* insert_at yields the node and the hashes it adds to passing_keys.
RECURSIVE insert_at(_, _, _, _)
insert_at(db, n, partial, value) ==
    CASE n.type = "Empty" -> [node |-> LeafNode(partial, value), passing |-> {}]
      [] n.type = "Leaf" ->
            LET old_partial == n.key
                match_index == common_prefix(partial, old_partial)
                branch == BranchInsert(
                    BranchInsert(BranchNew, at(partial, match_index),
                        LeafNode(slice(partial, match_index + 1, Len(partial)), value)),
                    at(old_partial, match_index),
                    LeafNode(slice(old_partial, match_index + 1, Len(old_partial)), n.value))
            IN  IF match_index = Len(old_partial)
                THEN [node |-> [n EXCEPT !.value = value], passing |-> {}]
                ELSE IF match_index = 0 THEN [node |-> branch, passing |-> {}]
                ELSE [node |-> ExtensionNode(slice(partial, 0, match_index), branch),
                      passing |-> {}]
      [] n.type = "Branch" ->
            IF at(partial, 0) = 16
            THEN [node |-> [n EXCEPT !.value = Some(value)], passing |-> {}]
            ELSE LET index == at(partial, 0)
                     c == insert_at(db, at_children(n, index), slice(partial, 1, Len(partial)), value)
                 IN  [node |-> [n EXCEPT !.children[index + 1] = c.node], passing |-> c.passing]
      [] n.type = "Extension" ->
            LET prefix == n.prefix
                sub_node == n.node
                match_index == common_prefix(partial, prefix)
            IN  IF match_index = 0
                THEN insert_at(db,
                        BranchInsert(BranchNew, at(prefix, 0),
                            IF Len(prefix) = 1 THEN sub_node
                            ELSE ExtensionNode(slice(prefix, 1, Len(prefix)), sub_node)),
                        partial, value)
                ELSE IF match_index = Len(prefix)
                THEN LET c == insert_at(db, sub_node, slice(partial, match_index, Len(partial)), value)
                     IN  [node |-> ExtensionNode(prefix, c.node), passing |-> c.passing]
                ELSE LET c == insert_at(db,
                                ExtensionNode(slice(prefix, match_index, Len(prefix)), sub_node),
                                slice(partial, match_index, Len(partial)), value)
                     IN  [node |-> ExtensionNode(slice(prefix, 0, match_index), c.node),
                          passing |-> c.passing]
      [] n.type = "Hash" ->
            [insert_at(db, get_node_from_hash(db, n.hash), partial, value)
                EXCEPT !.passing = @ \cup {decode_hash(n.hash, TRUE)}]

\* ------------------------------------------------------- the Trie interface
\* A trie instance: the fields of struct PatriciaTrie but db, which the
\* instances share.  cache is a set of (hash, bytes) pairs.
new ==
    [root |-> Empty,
     root_hash |-> decode_hash(encode_empty, FALSE),
     cache |-> {}, passing_keys |-> {}, gen_keys |-> {}]

\* from that reads a root absent from the database as the empty node.
from_AbsentAsEmpty(db, root) ==
    LET trie(n) ==
            IF IsInvalid(n) THEN Err(n.type)
            ELSE Ok([root |-> n, root_hash |-> root,
                     cache |-> {}, passing_keys |-> {}, gen_keys |-> {}])
    IN  trie(get_node_from_hash(db, root))

from(db, root) ==
    IF DbGet(db, root).some
    THEN LET trie(n) ==
                 IF IsInvalid(n) THEN Err(n.type)
                 ELSE Ok([root |-> n, root_hash |-> root,
                          cache |-> {}, passing_keys |-> {}, gen_keys |-> {}])
         IN  trie(decode_node(DbGet(db, root).v))
    ELSE Err("InvalidStateRoot")

get(t, db, key) == get_at(db, t.root, from_raw(key, TRUE))

contains(t, db, key) ==
    LET r == get(t, db, key) IN IF r.ok THEN Ok(r.val.some) ELSE r

remove(t, db, key) ==
    LET result(r) ==
            [trie |-> [t EXCEPT !.root = r.node,
                                !.passing_keys = @ \cup r.passing],
             removed |-> r.deleted]
    IN  result(delete_at(db, t.root, from_raw(key, TRUE)))

\* insert without the test for an empty value.
insert_NoEmptyTest(t, db, key, value) ==
    LET result(r) == [t EXCEPT !.root = r.node, !.passing_keys = @ \cup r.passing]
    IN  result(insert_at(db, t.root, from_raw(key, TRUE), value))

insert(t, db, key, value) ==
    IF value = <<>> THEN remove(t, db, key).trie
    ELSE LET result(r) == [t EXCEPT !.root = r.node, !.passing_keys = @ \cup r.passing]
         IN  result(insert_at(db, t.root, from_raw(key, TRUE), value))

\* commit without the insert of a root shorter than HASH_LENGTH into the cache.
commit_NoSmallRootInsert(t, db) ==
    LET flushed(root_hash, db2) ==
            [trie |-> [root |-> get_node_from_hash(db2, root_hash),
                       root_hash |-> root_hash,
                       cache |-> {}, passing_keys |-> {}, gen_keys |-> {}],
             db |-> db2,
             hash |-> root_hash]
        flush(root_hash, cache, gen_keys) ==
            flushed(root_hash,
                    DbRemoveBatch(DbInsertBatch(db, cache),
                                  {h \in t.passing_keys : h \notin gen_keys}))
        encoded(e) ==
            IF Len(e.data) < HASH_LENGTH
            THEN flush(decode_hash(e.data, FALSE),
                       t.cache \cup e.gen,
                       t.gen_keys \cup {p[1] : p \in e.gen})
            ELSE flush(decode_hash(e.data, TRUE),
                       t.cache \cup e.gen,
                       t.gen_keys \cup {p[1] : p \in e.gen})
    IN  encoded(encode_node(t.root))

\* commit without the clear of gen_keys.
commit_KeepGenKeys(t, db) ==
    LET flushed(root_hash, db2, gen_keys) ==
            [trie |-> [root |-> get_node_from_hash(db2, root_hash),
                       root_hash |-> root_hash,
                       cache |-> {}, passing_keys |-> {}, gen_keys |-> gen_keys],
             db |-> db2,
             hash |-> root_hash]
        flush(root_hash, cache, gen_keys) ==
            flushed(root_hash,
                    DbRemoveBatch(DbInsertBatch(db, cache),
                                  {h \in t.passing_keys : h \notin gen_keys}),
                    gen_keys)
        encoded(e) ==
            IF Len(e.data) < HASH_LENGTH
            THEN flush(decode_hash(e.data, FALSE),
                       t.cache \cup e.gen \cup {<<decode_hash(e.data, FALSE), e.data>>},
                       t.gen_keys \cup {p[1] : p \in e.gen})
            ELSE flush(decode_hash(e.data, TRUE),
                       t.cache \cup e.gen,
                       t.gen_keys \cup {p[1] : p \in e.gen})
    IN  encoded(encode_node(t.root))

\* commit yields the trie, the database and the root hash it returns.
commit(t, db) ==
    LET flushed(root_hash, db2) ==
            [trie |-> [root |-> get_node_from_hash(db2, root_hash),
                       root_hash |-> root_hash,
                       cache |-> {}, passing_keys |-> {}, gen_keys |-> {}],
             db |-> db2,
             hash |-> root_hash]
        flush(root_hash, cache, gen_keys) ==
            flushed(root_hash,
                    DbRemoveBatch(DbInsertBatch(db, cache),
                                  {h \in t.passing_keys : h \notin gen_keys}))
        encoded(e) ==
            IF Len(e.data) < HASH_LENGTH
            THEN flush(decode_hash(e.data, FALSE),
                       t.cache \cup e.gen \cup {<<decode_hash(e.data, FALSE), e.data>>},
                       t.gen_keys \cup {p[1] : p \in e.gen})
            ELSE flush(decode_hash(e.data, TRUE),
                       t.cache \cup e.gen,
                       t.gen_keys \cup {p[1] : p \in e.gen})
    IN  encoded(encode_node(t.root))

\* get_proof yields the proof and the trie, whose cache and gen_keys the
\* encoding of the proof's nodes has written.
get_proof(t, db, key) ==
    LET result(enc, gen) ==
            [proof |-> [i \in 1..Len(enc) |-> enc[i].data],
             trie |-> [t EXCEPT !.cache = @ \cup gen,
                                !.gen_keys = @ \cup {p[1] : p \in gen}]]
        encoded(enc) == result(enc, UNION {enc[i].gen : i \in 1..Len(enc)})
        rev(path) == encoded([i \in 1..Len(path) |-> encode_node_raw(path[Len(path) + 1 - i])])
        with_root(path) == rev(IF t.root.type = "Empty" THEN path ELSE Append(path, t.root))
    IN  with_root(get_path_at(db, t.root, from_raw(key, TRUE)))

\* verify_proof: Ok(option), Err("InvalidProof"), or Err("Panic") when the
\* codec panics on an element.
verify_proof(root_hash, key, proof) ==
    LET got(value) ==
            IF value.ok THEN value
            ELSE IF value.err = "Panic" THEN value ELSE Err("InvalidProof")
        opened(memdb, t) ==
            IF ~t.ok THEN (IF t.err = "Panic" THEN t ELSE Err("InvalidProof"))
            ELSE got(get(t.val, memdb, key))
        filled(memdb) == opened(memdb, from(memdb, root_hash))
        kept == {i \in 1..Len(proof) :
                    \/ decode_hash(proof[i], FALSE) = root_hash
                    \/ Len(proof[i]) >= HASH_LENGTH}
    IN  filled(DbInsertBatch({}, {<<decode_hash(proof[i], FALSE), proof[i]>> : i \in kept}))

\* ------------------------------------------------------------- the inputs
MaxOps == 5

MaxWrites == 6

MaxReopen == 5

LongLen == 29

\* The keys: the empty key, two keys that share their first nibble, and one
\* that differs from them in the first nibble.
KeySeq == <<<<>>, Bytes(<<17>>), Bytes(<<18>>), Bytes(<<33>>)>>

Keys == {KeySeq[i] : i \in 1..Len(KeySeq)}

\* The values: the one byte 0x80, and a value long enough that the leaf
\* holding it encodes to HASH_LENGTH bytes or more.
Short == Bytes(<<128>>)

Long == Bytes([i \in 1..LongLen |-> 7])

Values == {Short, Long}

\* What a caller may do to a proof before it verifies it: nothing, drop the
\* i-th element, or change the last byte of the i-th element.
Tampers(proof) ==
    {[kind |-> "none", i |-> 0]}
    \cup {[kind |-> k, i |-> i] : k \in {"drop", "alter"}, i \in 1..Len(proof)}

Alter(elem) ==
    [elem EXCEPT ![Len(elem)] = IF IsPlain(@) THEN B((Val(@) + 1) % 256) ELSE B(0)]

Tamper(proof, t) ==
    CASE t.kind = "none" -> proof
      [] t.kind = "drop" -> SubSeq(proof, 1, t.i - 1) \o SubSeq(proof, t.i + 1, Len(proof))
      [] t.kind = "alter" -> [proof EXCEPT ![t.i] = Alter(@)]

\* ---------------------------------------------------------------- the state
VARIABLES
    trie,    \* the trie instance the operations are called on
    db,      \* the database the instances share
    trie2,   \* a second instance opened with from(), or Closed
    model,   \* the key -> value map the insert and remove calls describe
    epoch,   \* where the calls so far stand: see NextPhase
    last,    \* the last call, its arguments and what it returned
    fuel     \* the number of calls left

vars == <<trie, db, trie2, model, epoch, last, fuel>>

Closed == [open |-> FALSE]

InitWith(n) ==
    /\ trie = new
    /\ db = {}
    /\ trie2 = Closed
    /\ model = [k \in Keys |-> None]
    /\ epoch = [phase |-> "ins", dirty |-> FALSE, committed |-> FALSE]
    /\ last = [op |-> "new"]
    /\ fuel = n

Init == InitWith(MaxOps)

Step == fuel > 0 /\ fuel' = fuel - 1 /\ trie2 = Closed

\* The phase of the calls so far: "ins" only inserts, "ins_c" inserts and
\* then one commit, "rem" after that only removes of present keys, "rem_c"
\* removes and then one commit, "other" anything else.
NextPhase(op, present) ==
    CASE op = "insert" -> IF epoch.phase = "ins" THEN "ins" ELSE "other"
      [] op = "remove" -> IF epoch.phase \in {"ins_c", "rem"} /\ present THEN "rem" ELSE "other"
      [] op = "commit" -> IF epoch.phase = "ins" THEN "ins_c"
                          ELSE IF epoch.phase = "rem" THEN "rem_c" ELSE "other"

Insert(key, value) ==
    /\ Step
    /\ trie' = insert(trie, db, key, value)
    /\ model' = [model EXCEPT ![key] = Some(value)]
    /\ epoch' = [epoch EXCEPT !.phase = NextPhase("insert", TRUE), !.dirty = TRUE]
    /\ last' = [op |-> "insert", key |-> key,
                fresh |-> ~model[key].some /\ ~epoch.dirty /\ epoch.committed,
                before |-> trie.root_hash]
    /\ UNCHANGED <<db, trie2>>

Remove(key) ==
    /\ Step
    /\ \E r \in {remove(trie, db, key)} :
           /\ trie' = r.trie
           /\ last' = [op |-> "remove", key |-> key,
                       was |-> get(trie, db, key), removed |-> r.removed,
                       undo |-> last.op = "insert" /\ last.key = key /\ last.fresh,
                       before |-> IF last.op = "insert" THEN last.before ELSE <<>>]
    /\ model' = [model EXCEPT ![key] = None]
    /\ epoch' = [epoch EXCEPT !.phase = NextPhase("remove", model[key].some), !.dirty = TRUE]
    /\ UNCHANGED <<db, trie2>>

Get(key) ==
    /\ Step
    /\ last' = [op |-> "get", key |-> key, ret |-> get(trie, db, key)]
    /\ UNCHANGED <<trie, db, trie2, model, epoch>>

GetProof(key) ==
    /\ Step
    /\ \E r \in {get_proof(trie, db, key)} :
           /\ trie' = r.trie
           /\ last' = [op |-> "get_proof", key |-> key, proof |-> r.proof]
    /\ UNCHANGED <<db, trie2, model, epoch>>

\* verify_proof of the proof the last get_proof returned, as tamper t left it.
VerifyProof(t) ==
    /\ Step
    /\ last.op = "get_proof"
    /\ t \in Tampers(last.proof)
    /\ last' = [op |-> "verify_proof", key |-> last.key, tamper |-> t.kind,
                ret |-> verify_proof(trie.root_hash, last.key, Tamper(last.proof, t))]
    /\ UNCHANGED <<trie, db, trie2, model, epoch>>

Commit ==
    /\ Step
    /\ \E r \in {commit(trie, db)} :
           /\ trie' = r.trie
           /\ db' = r.db
           /\ last' = [op |-> "commit", hash |-> r.hash,
                       undo |-> last.op = "remove" /\ last.undo,
                       before |-> IF last.op = "remove" THEN last.before ELSE <<>>]
    /\ epoch' = [phase |-> NextPhase("commit", TRUE), dirty |-> FALSE, committed |-> TRUE]
    /\ UNCHANGED <<trie2, model>>

\* from() on the shared database, at the root hash the first instance holds.
From ==
    /\ Step
    /\ \E r \in {from(db, trie.root_hash)} :
           /\ trie2' = IF r.ok THEN r.val ELSE Closed
           /\ last' = [op |-> "from", ok |-> r.ok]
    /\ UNCHANGED <<trie, db, model, epoch>>

\* The second instance goes out of scope.
Close ==
    /\ trie2 # Closed
    /\ trie2' = Closed
    /\ last' = [op |-> "close"]
    /\ UNCHANGED <<trie, db, model, epoch, fuel>>

Next ==
    \/ \E k \in Keys, v \in Values : Insert(k, v)
    \/ \E k \in Keys : Remove(k)
    \/ \E k \in Keys : Get(k)
    \/ \E k \in Keys : GetProof(k)
    \/ \E t \in Tampers(<<1, 2, 3>>) : VerifyProof(t)
    \/ Commit
    \/ From
    \/ Close

Spec == Init /\ [][Next]_vars

\* Only the calls that write: deeper runs of insert, remove and commit.
InitWrite == InitWith(MaxWrites)

NextWrite ==
    \/ \E k \in Keys, v \in Values : Insert(k, v)
    \/ \E k \in Keys : Remove(k)
    \/ Commit

SpecWrite == InitWrite /\ [][NextWrite]_vars

\* The calls that write, and reopening the database with from().
InitReopen == InitWith(MaxReopen)

NextReopen ==
    \/ \E k \in Keys, v \in Values : Insert(k, v)
    \/ \E k \in Keys : Remove(k)
    \/ Commit
    \/ From
    \/ Close

SpecReopen == InitReopen /\ [][NextReopen]_vars

\* Two instances on one database: the second one, opened with from(), is
\* written and committed while the first one stays as it is.
MaxTwo == 6

Step2 == fuel > 0 /\ fuel' = fuel - 1 /\ trie2 # Closed

Insert2(key, value) ==
    /\ Step2
    /\ trie2' = insert(trie2, db, key, value)
    /\ last' = [op |-> "insert2", key |-> key]
    /\ UNCHANGED <<trie, db, model, epoch>>

Remove2(key) ==
    /\ Step2
    /\ \E r \in {remove(trie2, db, key)} :
           /\ trie2' = r.trie
           /\ last' = [op |-> "remove2", key |-> key, removed |-> r.removed]
    /\ UNCHANGED <<trie, db, model, epoch>>

Commit2 ==
    /\ Step2
    /\ \E r \in {commit(trie2, db)} :
           /\ trie2' = r.trie
           /\ db' = r.db
           /\ last' = [op |-> "commit2", hash |-> r.hash]
    /\ UNCHANGED <<trie, model, epoch>>

InitTwo == InitWith(MaxTwo)

NextTwo ==
    \/ \E k \in Keys, v \in Values : Insert(k, v)
    \/ \E k \in Keys : Remove(k)
    \/ Commit
    \/ From
    \/ \E k \in Keys, v \in Values : Insert2(k, v)
    \/ \E k \in Keys : Remove2(k)
    \/ Commit2
    \/ Close

SpecTwo == InitTwo /\ [][NextTwo]_vars

\* The reads between the writes, contains among them.
MaxRead == 4

Contains(key) ==
    /\ Step
    /\ last' = [op |-> "contains", key |-> key, ret |-> contains(trie, db, key)]
    /\ UNCHANGED <<trie, db, trie2, model, epoch>>

InitRead == InitWith(MaxRead)

NextRead ==
    \/ \E k \in Keys, v \in Values : Insert(k, v)
    \/ \E k \in Keys : Remove(k)
    \/ Commit
    \/ \E k \in Keys : Get(k)
    \/ \E k \in Keys : Contains(k)
    \/ \E k \in Keys : GetProof(k)

SpecRead == InitRead /\ [][NextRead]_vars

\* insert with an empty value among the writes.
MaxEmpty == 5

InsertEmpty(key) ==
    /\ Step
    /\ trie' = insert(trie, db, key, <<>>)
    /\ model' = [model EXCEPT ![key] = None]
    /\ epoch' = [epoch EXCEPT !.phase = "other", !.dirty = TRUE]
    /\ last' = [op |-> "insert_empty", key |-> key, was |-> get(trie, db, key)]
    /\ UNCHANGED <<db, trie2>>

InitEmpty == InitWith(MaxEmpty)

NextEmpty ==
    \/ \E k \in Keys, v \in Values : Insert(k, v)
    \/ \E k \in Keys : InsertEmpty(k)
    \/ \E k \in Keys : Remove(k)
    \/ Commit

SpecEmpty == InitEmpty /\ [][NextEmpty]_vars

\* from() at any root: the root hash of the first instance, the hash of the
\* empty encoding, every key of the database, and a hash that is no key.
MaxFrom == 4

Roots ==
    {trie.root_hash, decode_hash(encode_empty, FALSE), decode_hash(<<B(0)>>, FALSE)}
    \cup {p[1] : p \in db}

FromAt(root) ==
    /\ Step
    /\ \E r \in {from(db, root)} :
           /\ trie2' = IF r.ok THEN r.val ELSE Closed
           /\ last' = [op |-> "from_at", root |-> root,
                       present |-> DbGet(db, root).some,
                       ok |-> r.ok, err |-> IF r.ok THEN "" ELSE r.err]
    /\ UNCHANGED <<trie, db, model, epoch>>

InitFrom == InitWith(MaxFrom)

NextFrom ==
    \/ \E k \in Keys, v \in Values : Insert(k, v)
    \/ \E k \in Keys : Remove(k)
    \/ Commit
    \/ \E root \in Roots : FromAt(root)
    \/ Close

SpecFrom == InitFrom /\ [][NextFrom]_vars

\* ------------------------------------------------------------- the claims
\* What get returns for every key.
GetAll(t) == [k \in Keys |-> get(t, db, k)]

\* What a plain key -> value map returns for every key.
MapAll == [k \in Keys |-> Ok(model[k])]

\* The trie that the inserts of map m, in the order of KeySeq, build from a
\* new trie on an empty database, and the root hash its commit returns.
RECURSIVE RefTrie(_, _)
RefTrie(m, i) ==
    IF i = 0 THEN new
    ELSE IF m[KeySeq[i]].some
    THEN insert(RefTrie(m, i - 1), {}, KeySeq[i], m[KeySeq[i]].v)
    ELSE RefTrie(m, i - 1)

RefRoot(m) == commit(RefTrie(m, Len(KeySeq)), {}).hash

\* Every HashRef reachable from node n has its hash in the database.
RECURSIVE Resolves(_)
Resolves(n) ==
    CASE n.type = "Hash" -> DbGet(db, n.hash).some /\ Resolves(get_node_from_hash(db, n.hash))
      [] n.type = "Extension" -> Resolves(n.node)
      [] n.type = "Branch" -> \A i \in 0..15 : Resolves(at_children(n, i))
      [] OTHER -> TRUE

EmptyHash == decode_hash(encode_empty, FALSE)

\* C1: after inserts of non-empty values on a new trie and then commit,
\* get returns for every key the value of its last insert, and None for a
\* key that was never inserted.
C1_GetAfterInsertsAndCommit ==
    epoch.phase = "ins_c" => GetAll(trie) = MapAll

\* C2: after every commit, every HashRef reachable from the new root has its
\* hash in the database.
C2_ReachableAfterCommit ==
    last.op = "commit" => Resolves(trie.root)

\* C3: in a write epoch that started from a new or a committed trie, after
\* inserts and removes get returns for every key what a plain key -> value
\* map returns.
C3_GetRefinesMap ==
    epoch.dirty => GetAll(trie) = MapAll

\* C4: the root hash commit returns is the one that the inserts of the final
\* key -> value mapping alone yield.
C4_CanonicalRoot ==
    last.op = "commit" => last.hash = RefRoot(model)

\* C5: on a committed trie, insert of an absent key, remove of that key and
\* commit return the root hash the trie had before the insert.
C5_InsertRemoveRoundTrip ==
    (last.op = "commit" /\ last.undo) => last.hash = last.before

\* C6: on a committed trie, verify_proof of the proof get_proof returned for
\* a key is Ok with the option that get returns for the key.
C6_ProofRoundTrip ==
    (last.op = "verify_proof" /\ last.tamper = "none" /\ epoch.committed /\ ~epoch.dirty)
        => last.ret = get(trie, db, last.key)

\* C7: verify_proof of a proof with an element altered or missing reports
\* InvalidProof.
C7_TamperedProofInvalid ==
    (last.op = "verify_proof" /\ last.tamper # "none" /\ epoch.committed /\ ~epoch.dirty)
        => last.ret = Err("InvalidProof")

\* C8: remove returns true if and only if get of the key was Some
\* immediately before the call.
C8_RemoveReturnsWasPresent ==
    last.op = "remove" => (last.removed <=> (last.was.ok /\ last.was.val.some))

\* C9: after inserts, commit, removes of all the keys and commit, and after
\* commit on a new trie, the root hash is the hash of the empty encoding
\* and the database maps it to the empty encoding.
C9_EmptiedTrieRoot ==
    (epoch.phase \in {"ins_c", "rem_c"} /\ \A k \in Keys : ~model[k].some)
        => /\ last.hash = EmptyHash
           /\ trie.root_hash = EmptyHash
           /\ DbGet(db, EmptyHash) = Some(encode_empty)

\* C10: from() at the root hash a commit returned succeeds, and the reopened
\* trie returns for every key what the committing trie returns.
C10_ReopenAfterCommit ==
    (last.op = "from" /\ epoch.committed)
        => /\ last.ok
           /\ trie2 # Closed
           /\ trie2.root_hash = trie.root_hash
           /\ ~epoch.dirty => GetAll(trie2) = GetAll(trie)

\* A trie with a long value under a branch was committed and then reopened.
C10_Witness ==
    /\ last.op = "from" /\ last.ok /\ epoch.committed /\ ~epoch.dirty
    /\ trie2 # Closed
    /\ trie2.root.type = "Branch"
    /\ \E k \in Keys : get(trie2, db, k) = Ok(Some(Long))

\* What get returns for every key on trie t over database d.
GetAllIn(t, d) == [k \in Keys |-> get(t, d, k)]

\* C11: insert, remove and commit on the second instance never change what
\* get returns for any key on the first instance.
C11_InstancesIndependent ==
    [][(last'.op \in {"insert2", "remove2", "commit2"})
           => GetAllIn(trie', db') = GetAllIn(trie, db)]_vars

\* C12: get, contains and get_proof leave the database and the trie, its
\* root hash, write cache, passing set and generated set, as they were.
C12_ReadsAreReadOnly ==
    [][(last'.op \in {"get", "contains", "get_proof"})
           => (db' = db /\ trie' = trie)]_vars

\* C13: on a committed trie the proof get_proof returns is not empty, and
\* its first element is the encoding of the root: its hash is the root hash.
C13_ProofStartsAtRoot ==
    (last.op = "get_proof" /\ epoch.committed /\ ~epoch.dirty)
        => /\ last.proof # <<>>
           /\ decode_hash(last.proof[1], FALSE) = trie.root_hash

\* No leaf and no branch of the graph under node n, the hash nodes resolved
\* through database d, holds a value of no bytes.
RECURSIVE NoEmptyValue(_, _)
NoEmptyValue(d, n) ==
    CASE n.type = "Leaf" -> n.value # <<>>
      [] n.type = "Branch" ->
            /\ n.value.some => n.value.v # <<>>
            /\ \A i \in 0..15 : NoEmptyValue(d, at_children(n, i))
      [] n.type = "Extension" -> NoEmptyValue(d, n.node)
      [] n.type = "Hash" -> NoEmptyValue(d, get_node_from_hash(d, n.hash))
      [] OTHER -> TRUE

\* C14: insert of an empty value does what remove does: the trie it leaves
\* is the one remove leaves, with the same root hash at commit, get of the
\* key is None and contains is false; and no empty value is ever stored.
C14_EmptyInsertIsRemove ==
    [][/\ (last'.op = "insert_empty") =>
              /\ trie' = remove(trie, db, last'.key).trie
              /\ commit(trie', db').hash = commit(remove(trie, db, last'.key).trie, db).hash
              /\ get(trie', db', last'.key) = Ok(None)
              /\ contains(trie', db', last'.key) = Ok(FALSE)
       /\ NoEmptyValue(db', trie'.root)]_vars

\* An empty value was inserted for a key that held a value, in a trie that
\* keeps another key.
C14_Witness ==
    /\ last.op = "insert_empty"
    /\ last.was = Ok(Some(Long))
    /\ \E k \in Keys : get(trie, db, k) = Ok(Some(Short))

\* C15: from() at a root that is no key of the database is
\* Err(InvalidStateRoot); at a key whose entry decodes it is a trie whose
\* root hash is that root.
C15_FromInvalidStateRoot ==
    last.op = "from_at" =>
        /\ ~last.present => (~last.ok /\ last.err = "InvalidStateRoot" /\ trie2 = Closed)
        /\ (last.present /\ ~IsInvalid(decode_node(DbGet(db, last.root).v)))
              => (last.ok /\ trie2 # Closed /\ trie2.root_hash = last.root)

\* from() was called with the hash of the empty encoding on a database in
\* which no trie was committed.
C15_Witness ==
    /\ last.op = "from_at"
    /\ last.root = decode_hash(encode_empty, FALSE)
    /\ ~epoch.committed
    /\ ~last.present

\* C16: a commit with no insert or remove since the previous commit of the
\* instance, or since from() built it, returns the root hash the instance
\* had and leaves the database as it was.
C16_CommitIdempotent ==
    [][/\ (last'.op = "commit" /\ epoch.committed /\ ~epoch.dirty)
              => (last'.hash = trie.root_hash /\ db' = db)
       /\ (last'.op = "commit2" /\ last.op = "from")
              => (last'.hash = trie2.root_hash /\ db' = db)]_vars

\* The node a child slot stands for: a hash node is the node the database
\* holds for its hash.
Resolved(d, n) == IF n.type = "Hash" THEN get_node_from_hash(d, n.hash) ELSE n

\* The structural invariants of the graph under node n over database d.
RECURSIVE WellFormed(_, _)
WellFormed(d, n) ==
    CASE n.type = "Extension" ->
            /\ Resolved(d, n.node).type \notin {"Empty", "Extension"}
            /\ WellFormed(d, n.node)
      [] n.type = "Branch" ->
            /\ \/ Cardinality({i \in 0..15 : at_children(n, i).type # "Empty"}) >= 2
               \/ n.value.some
            /\ \A i \in 0..15 : WellFormed(d, at_children(n, i))
      [] n.type = "Hash" -> WellFormed(d, get_node_from_hash(d, n.hash))
      [] OTHER -> TRUE

\* C17: after any sequence of insert, remove and commit no extension of the
\* graph under the root has an empty child or an extension child, and every
\* branch has two occupied child slots or more, or a value.
C17_StructuralInvariant == WellFormed(db, trie.root)

\* Clean: the write cache, the passing set and the generated set are empty
\* and the root is the node the database gives for the root hash.
Clean(t) ==
    /\ t.cache = {}
    /\ t.passing_keys = {}
    /\ t.gen_keys = {}
    /\ t.root = get_node_from_hash(db, t.root_hash)

\* C18: a trie starts Clean, from new and from from(); after every commit it
\* is Clean again, its root hash is the hash commit returned, and its root is
\* the node decoded from the entry the database holds for that hash.
C18_CommitReturnsToClean ==
    /\ last.op = "new" => Clean(trie)
    /\ (last.op = "from" /\ last.ok) => (trie2 # Closed /\ Clean(trie2))
    /\ last.op = "commit" =>
          /\ Clean(trie)
          /\ trie.root_hash = last.hash
          /\ DbGet(db, last.hash).some
          /\ trie.root = decode_node(DbGet(db, last.hash).v)

\* A commit, at least three operations after construction, has stored a
\* branch with a hashed child.
C18_Witness ==
    /\ last.op = "commit"
    /\ fuel <= MaxReopen - 4
    /\ trie.root.type = "Branch"
    /\ \E i \in 0..15 : at_children(trie.root, i).type = "Hash"

\* A branch keeps its value slot through encode_node_raw and decode_node.
BranchValueKept(n) ==
    LET same(d) == d.type = "Branch" /\ d.value = n.value
    IN  same(decode_node(encode_node_raw(n).data))

\* C19: the value slot of a branch survives encode_node_raw followed by
\* decode_node (None stays None, a value keeps its bytes), so after a commit
\* that reloads a branch root, get of the empty key still gives the value
\* that was stored under it.
C19_BranchValueRoundTrip ==
    /\ trie.root.type = "Branch" => BranchValueKept(trie.root)
    /\ (last.op = "commit" /\ trie.root.type = "Branch" /\ model[<<>>].some) =>
          get(trie, db, <<>>) = Ok(model[<<>>])

====
